---- MODULE Spec2Model ----
(***************************************************************************)
(* PageRank engine of pagerank.py: transition_model, sample_pagerank and   *)
(* iterate_pagerank, called in any order on one shared corpus.             *)
(*                                                                         *)
(* Pages are 1..N in the corpus' iteration order (a dict iterates in       *)
(* insertion order).  A damping factor is a fraction <<num, den>>.         *)
(* transition_model and sample_pagerank are computed in exact fractions;   *)
(* iterate_pagerank is computed in fixed point with Scale units per 1.0,   *)
(* each division and product rounded to the nearest unit, operation by     *)
(* operation in the order of the code.                                     *)
(***************************************************************************)
EXTENDS Integers, Sequences, FiniteSets

\* ---------------------------------------------------------------- bounds
MaxPages == 3
MaxLinks == 3
MaxSamples == 3
PassCap == 3

\* ------------------------------------------------------------- fractions
RECURSIVE GCD(_, _)
GCD(a, b) == IF b = 0 THEN a ELSE GCD(b, a % b)

Abs(x) == IF x < 0 THEN -x ELSE x

\* the fraction a/b (b # 0) in lowest terms with a positive denominator
Frac(a, b) ==
    LET g == GCD(Abs(a), Abs(b))
        s == IF b < 0 THEN -1 ELSE 1
    IN  <<(s * a) \div g, (s * b) \div g>>

RAdd(x, y) ==
    LET g == GCD(x[2], y[2])
    IN  Frac(x[1] * (y[2] \div g) + y[1] * (x[2] \div g), x[2] * (y[2] \div g))

RSub(x, y) == RAdd(x, <<-y[1], y[2]>>)

RDivInt(x, k) == Frac(x[1], x[2] * k)

RLe(x, y) == x[1] * y[2] <= y[1] * x[2]

RZero == <<0, 1>>
ROne == <<1, 1>>

RECURSIVE RSum(_, _)
RSum(f, S) ==
    IF S = {} THEN RZero
    ELSE LET x == CHOOSE y \in S : TRUE IN RAdd(f[x], RSum(f, S \ {x}))

RECURSIVE ISum(_, _)
ISum(f, S) ==
    IF S = {} THEN 0
    ELSE LET x == CHOOSE y \in S : TRUE IN f[x] + ISum(f, S \ {x})

\* ----------------------------------------------------------- fixed point
Scale == 10 ^ 8

\* x / k rounded to the nearest unit (x >= 0, k > 0)
FDiv(x, k) == (2 * x + k) \div (2 * k)

\* d * x rounded to the nearest unit, d = <<num, den>>, without leaving 32 bits
FMul(d, x) ==
    LET q == x \div d[2]
        r == x % d[2]
    IN  q * d[1] + (2 * r * d[1] + d[2]) \div (2 * d[2])

\* 1 - d in fixed point
FOneMinus(d) == Scale - FMul(d, Scale)

CONVERGENCE == Scale \div 1000

\* ---------------------------------------------------------------- inputs
Keys(corpus) == DOMAIN corpus

Links(corpus) == ISum([p \in Keys(corpus) |-> Cardinality(corpus[p])], Keys(corpus))

\* crawl: no page links to itself, every link target is a page of the corpus
crawl ==
    UNION { { g \in [1..n -> SUBSET (1..n)] :
                /\ \A p \in 1..n : p \notin g[p]
                /\ Links(g) <= MaxLinks } : n \in 0..MaxPages }

DAMPING == <<17, 20>>

Dampings == { <<0, 1>>, <<1, 2>>, DAMPING, <<1, 1>> }

SampleCounts == (-1)..MaxSamples

ValidDamping(d) == 0 < d[1] /\ d[1] < d[2]

\* ------------------------------------------------------ transition_model
EffectiveLinks(corpus, page) ==
    IF Cardinality(corpus[page]) > 0 THEN corpus[page] ELSE Keys(corpus)

PrLinkWrongLen(corpus, page, d) == RDivInt(d, Cardinality(Keys(corpus)))

PrLink(corpus, page, d) == RDivInt(d, Cardinality(EffectiveLinks(corpus, page)))

PrPageWrongLen(corpus, d) == RDivInt(RSub(ROne, d), Cardinality(Keys(corpus)) + 1)

PrPage(corpus, d) == RDivInt(RSub(ROne, d), Cardinality(Keys(corpus)))

transition_model(corpus, page, d) ==
    [i \in Keys(corpus) |->
        IF i \in EffectiveLinks(corpus, page)
        THEN RAdd(PrPage(corpus, d), PrLink(corpus, page, d))
        ELSE PrPage(corpus, d)]

\* random.choices: a page of positive weight
Choices(dist) == {i \in DOMAIN dist : dist[i][1] > 0}

\* ----------------------------------------------------------------- state
VARIABLES
    corpus,        \* the shared graph: page -> set of pages
    corpus0,       \* history: the graph as crawl built it
    preprocessed,  \* history: an iterate_pagerank call has finished its first loop
    pc,            \* position: idle, sample_loop, iter_init, iter_while, iter_for, returned, failed
    fn,            \* the function of the current or last call
    damping,       \* damping_factor of the call
    n,             \* n of the sample_pagerank call
    page,          \* sample_pagerank: current page; transition_model: its argument
    result,        \* sample_pagerank: visit counters
    k,             \* sample_pagerank: transitions done (the range(n-1) index)
    pr_res,        \* iterate_pagerank: ranks, fixed point
    p,             \* iterate_pagerank: the page of the running for loop
    is_converged,  \* iterate_pagerank
    snap,          \* history: pr_res when the running pass began
    passes,        \* history: passes begun, saturating at PassCap
    ret            \* the returned mapping: page -> fraction

vars == <<corpus, corpus0, preprocessed, pc, fn, damping, n, page, result, k,
          pr_res, p, is_converged, snap, passes, ret>>

N == Cardinality(Keys(corpus))

Idle == pc = "idle"

Init ==
    /\ corpus \in crawl
    /\ corpus0 = corpus
    /\ preprocessed = FALSE
    /\ pc = "idle" /\ fn = "none" /\ damping = DAMPING
    /\ n = 0 /\ page = 0 /\ result = <<>> /\ k = 0
    /\ pr_res = <<>> /\ p = 0 /\ is_converged = FALSE
    /\ snap = <<>> /\ passes = 0 /\ ret = <<>>

\* ------------------------------------------------------ transition_model
\* a call of transition_model on its own; corpus[page] raises KeyError for
\* a page that is no key
CallTransition(pg, d) ==
    /\ Idle
    /\ fn' = "transition" /\ damping' = d
    /\ n' = 0 /\ page' = pg /\ result' = <<>> /\ k' = 0
    /\ pr_res' = <<>> /\ p' = 0 /\ is_converged' = FALSE
    /\ snap' = <<>> /\ passes' = 0
    /\ \/ /\ pg \notin Keys(corpus)
          /\ pc' = "failed" /\ ret' = <<>>
       \/ /\ pg \in Keys(corpus)
          /\ pc' = "returned" /\ ret' = transition_model(corpus, pg, d)
    /\ UNCHANGED <<corpus, corpus0, preprocessed>>

\* ------------------------------------------------------- sample_pagerank
InitCountersAllZero(c, first) == [i \in Keys(c) |-> 0]

InitCounters(c, first) == [i \in Keys(c) |-> IF first = i THEN 1 ELSE 0]

\* lines 81-85; random.choice raises IndexError on an empty corpus
CallSample(d, cnt) ==
    /\ Idle
    /\ fn' = "sample" /\ damping' = d /\ n' = cnt
    /\ k' = 0 /\ pr_res' = <<>> /\ p' = 0 /\ is_converged' = FALSE
    /\ snap' = <<>> /\ passes' = 0 /\ ret' = <<>>
    /\ \/ /\ Keys(corpus) = {}
          /\ pc' = "failed" /\ page' = 0 /\ result' = <<>>
       \/ \E first \in Keys(corpus) :
            /\ pc' = "sample_loop"
            /\ page' = first
            /\ result' = InitCounters(corpus, first)
    /\ UNCHANGED <<corpus, corpus0, preprocessed>>

\* lines 86-89: one iteration of the range(n-1) loop
SampleStep ==
    /\ pc = "sample_loop"
    /\ k < n - 1
    /\ LET prob_dist == transition_model(corpus, page, damping)
       IN  \E nxt \in Choices(prob_dist) :
             /\ page' = nxt
             /\ result' = [result EXCEPT ![nxt] = @ + 1]
    /\ k' = k + 1
    /\ UNCHANGED <<corpus, corpus0, preprocessed, pc, fn, damping, n,
                   pr_res, p, is_converged, snap, passes, ret>>

\* lines 90-92; dividing by n = 0 raises ZeroDivisionError
SampleReturn ==
    /\ pc = "sample_loop"
    /\ ~(k < n - 1)
    /\ \/ /\ n = 0
          /\ pc' = "failed" /\ ret' = <<>>
       \/ /\ n # 0
          /\ pc' = "returned"
          /\ ret' = [i \in DOMAIN result |-> Frac(result[i], n)]
    /\ page' = 0 /\ result' = <<>> /\ k' = 0
    /\ UNCHANGED <<corpus, corpus0, preprocessed, fn, damping, n,
                   pr_res, p, is_converged, snap, passes>>

\* ------------------------------------------------------ iterate_pagerank
\* lines 112-113: a page with no links gets the corpus' keys as its links
PreprocessEveryPage(c, q) == [c EXCEPT ![q] = Keys(c)]

Preprocess(c, q) ==
    IF Cardinality(c[q]) = 0 THEN [c EXCEPT ![q] = Keys(c)] ELSE c

\* lines 123-125: the inbound scan over the ranks rk, pages in corpus order
RECURSIVE InboundSum(_, _, _, _)
InboundSum(c, rk, q, i) ==
    IF i = 0 THEN 0
    ELSE InboundSum(c, rk, q, i - 1)
         + (IF q \in c[i] THEN FDiv(rk[i], Cardinality(c[i])) ELSE 0)

\* lines 120-126: the new rank of page q, computed from the ranks rk in which
\* rk[q] has already been overwritten by (1 - d) / N (line 121)
UpdatedRank(c, rk, d, q) ==
    LET base == FDiv(FOneMinus(d), Cardinality(Keys(c)))
        rk1 == [rk EXCEPT ![q] = base]
    IN  base + FMul(d, InboundSum(c, rk1, q, Cardinality(Keys(c))))

\* line 128
NeverWithinTolerance(diff) == diff < 0

WithinTolerance(diff) == diff <= CONVERGENCE

\* lines 104-106
CallIterate(d) ==
    /\ Idle
    /\ fn' = "iterate" /\ damping' = d
    /\ pc' = "iter_init"
    /\ n' = 0 /\ page' = 0 /\ result' = <<>> /\ k' = 0
    /\ pr_res' = <<>> /\ p' = 1 /\ is_converged' = FALSE
    /\ snap' = <<>> /\ passes' = 0 /\ ret' = <<>>
    /\ UNCHANGED <<corpus, corpus0, preprocessed>>

\* lines 109-113: one iteration of the first loop
IterPreprocess ==
    /\ pc = "iter_init"
    /\ p <= N
    /\ pr_res' = Append(pr_res, FDiv(Scale, N))
    /\ corpus' = Preprocess(corpus, p)
    /\ p' = p + 1
    /\ UNCHANGED <<corpus0, preprocessed, pc, fn, damping, n, page, result, k,
                   is_converged, snap, passes, ret>>

\* line 117
IterEnterLoop ==
    /\ pc = "iter_init"
    /\ p > N
    /\ is_converged' = FALSE
    /\ preprocessed' = TRUE
    /\ pc' = "iter_while"
    /\ p' = 0
    /\ UNCHANGED <<corpus, corpus0, fn, damping, n, page, result, k,
                   pr_res, snap, passes, ret>>

\* line 118, condition true: a pass begins
IterBeginPass ==
    /\ pc = "iter_while"
    /\ is_converged = FALSE
    /\ pc' = "iter_for"
    /\ p' = 1
    /\ snap' = pr_res
    /\ passes' = IF passes < PassCap THEN passes + 1 ELSE passes
    /\ UNCHANGED <<corpus, corpus0, preprocessed, fn, damping, n, page, result,
                   k, pr_res, is_converged, ret>>

\* lines 119-129: one iteration of the for loop
IterUpdate ==
    /\ pc = "iter_for"
    /\ p <= N
    /\ LET old_pr_p == pr_res[p]
           new_pr_p == UpdatedRank(corpus, pr_res, damping, p)
           diff == Abs(new_pr_p - old_pr_p)
       IN  /\ pr_res' = [pr_res EXCEPT ![p] = new_pr_p]
           /\ is_converged' = (is_converged \/ WithinTolerance(diff))
    /\ p' = p + 1
    /\ UNCHANGED <<corpus, corpus0, preprocessed, pc, fn, damping, n, page,
                   result, k, snap, passes, ret>>

\* line 119, loop exhausted: back to the while test
IterEndPass ==
    /\ pc = "iter_for"
    /\ p > N
    /\ pc' = "iter_while"
    /\ p' = 0
    /\ UNCHANGED <<corpus, corpus0, preprocessed, fn, damping, n, page, result,
                   k, pr_res, is_converged, snap, passes, ret>>

\* line 118, condition false, and line 131; a rank of v units is the
\* fraction v / Scale
IterReturn ==
    /\ pc = "iter_while"
    /\ is_converged = TRUE
    /\ pc' = "returned"
    /\ ret' = [i \in DOMAIN pr_res |-> <<pr_res[i], Scale>>]
    /\ UNCHANGED <<corpus, corpus0, preprocessed, fn, damping, n, page, result,
                   k, pr_res, p, is_converged, snap, passes>>

\* the caller has taken the result (or caught the exception): the call's
\* locals are gone, the corpus stays
CallOver ==
    /\ pc \in {"returned", "failed"}
    /\ pc' = "idle" /\ fn' = "none" /\ damping' = DAMPING
    /\ n' = 0 /\ page' = 0 /\ result' = <<>> /\ k' = 0
    /\ pr_res' = <<>> /\ p' = 0 /\ is_converged' = FALSE
    /\ snap' = <<>> /\ passes' = 0 /\ ret' = <<>>
    /\ UNCHANGED <<corpus, corpus0, preprocessed>>

IterateRun ==
    \/ IterPreprocess
    \/ IterEnterLoop
    \/ IterBeginPass
    \/ IterUpdate
    \/ IterEndPass
    \/ IterReturn

Next ==
    \/ \E pg \in 1..MaxPages, d \in Dampings : CallTransition(pg, d)
    \/ \E d \in Dampings, cnt \in SampleCounts : CallSample(d, cnt)
    \/ SampleStep
    \/ SampleReturn
    \/ \E d \in Dampings : CallIterate(d)
    \/ IterPreprocess
    \/ IterEnterLoop
    \/ IterBeginPass
    \/ IterUpdate
    \/ IterEndPass
    \/ IterReturn
    \/ CallOver

Spec == Init /\ [][Next]_vars

\* calls of iterate_pagerank only, one after the other on the shared corpus;
\* a running call is never suspended: it keeps taking steps
IterateNext ==
    \/ \E d \in Dampings : CallIterate(d)
    \/ IterateRun
    \/ CallOver

IterateSpec == Init /\ [][IterateNext]_vars /\ WF_vars(IterateRun)

\* ================================================================ claims
ValidCall == N >= 1 /\ ValidDamping(damping)

Returned(f) == pc = "returned" /\ fn = f

\* every value in [0,1] and the values sum to 1
RankMapping(m) ==
    /\ \A q \in DOMAIN m : RLe(RZero, m[q]) /\ RLe(m[q], ROne)
    /\ RSum(m, DOMAIN m) = ROne

\* C1: for a non-empty graph and damping in (0,1), iterate_rank returns ranks
\* that sum to 1.0 within 1e-6.
C1_IterateSumsToOne ==
    (Returned("iterate") /\ ValidCall)
        => Abs(ISum(pr_res, DOMAIN pr_res) - Scale) <= Scale \div (10 ^ 6)

\* C2: for a non-empty graph, a page of it and damping in (0,1), the values
\* of the distribution transition returns sum to 1.
C2_TransitionSumsToOne ==
    (Returned("transition") /\ ValidCall) => RSum(ret, DOMAIN ret) = ROne

C2_Witness ==
    /\ Returned("transition") /\ ValidCall
    /\ N = MaxPages
    /\ Cardinality(corpus[page]) = 1

\* C3: transition returns a mapping over exactly the pages of the graph, with
\* (1 - damping)/|graph| at every page, plus damping/|L| at the pages of L,
\* L being graph[page] when non-empty and all pages otherwise; a dangling
\* page gives every page 1/|graph|.
C3_Expected(q) ==
    LET L == IF corpus[page] # {} THEN corpus[page] ELSE Keys(corpus)
        num == damping[1]
        den == damping[2]
    IN  Frac((den - num) * Cardinality(L) + (IF q \in L THEN num * N ELSE 0),
             den * N * Cardinality(L))

C3_TransitionValues ==
    (Returned("transition") /\ ValidCall) =>
        /\ DOMAIN ret = Keys(corpus)
        /\ \A q \in Keys(corpus) : ret[q] = C3_Expected(q)
        /\ corpus[page] = {} => \A q \in Keys(corpus) : ret[q] = Frac(1, N)

C3_Witness ==
    /\ Returned("transition") /\ ValidCall
    /\ N >= 2
    /\ corpus[page] = {}

\* C4: for a non-empty graph, damping in (0,1) and n >= 1, whatever the
\* draws: the counters start at 1 for the first page and 0 elsewhere, every
\* transition adds one to exactly one counter (they sum to k + 1 after k
\* transitions), and the returned values are the counters over n, each in
\* [0,1], summing to 1.
C4_Counters ==
    (pc = "sample_loop" /\ ValidCall /\ n >= 1) =>
        /\ k <= n - 1
        /\ ISum(result, DOMAIN result) = k + 1
        /\ k = 0 => \A q \in DOMAIN result : result[q] = (IF q = page THEN 1 ELSE 0)

C4_Returned ==
    (Returned("sample") /\ ValidCall /\ n >= 1) =>
        /\ DOMAIN ret = Keys(corpus)
        /\ \A q \in DOMAIN ret : \E c \in 0..n : ret[q] = Frac(c, n)
        /\ RankMapping(ret)

C4_Step ==
    (pc = "sample_loop" /\ pc' = "sample_loop" /\ ValidCall /\ n >= 1) =>
        \E q \in DOMAIN result : result' = [result EXCEPT ![q] = @ + 1]

C4_SampleCounts == [](C4_Counters /\ C4_Returned) /\ [][C4_Step]_vars

C4_Witness ==
    /\ Returned("sample") /\ ValidCall
    /\ n = MaxSamples
    /\ \E q \in DOMAIN ret : ret[q] = Frac(n - 1, n)

\* C5: a call of sample_rank or iterate_rank returns only a mapping with every
\* value in [0,1] and the values summing to 1, and returns nothing for an
\* empty graph, n < 1 or a damping factor outside (0,1).
C5_ReturnsOnlyRankMappings ==
    (pc = "returned" /\ fn \in {"sample", "iterate"}) =>
        /\ ValidCall
        /\ fn = "sample" => n >= 1
        /\ RankMapping(ret)

\* C6: for a graph of one page and damping in (0,1), iterate_rank returns
\* {page: 1.0} after at most one pass.
C6_SinglePage ==
    (Returned("iterate") /\ ValidCall /\ N = 1) =>
        /\ Frac(ret[1][1], ret[1][2]) = ROne
        /\ passes <= 1

C8_JacobiRank(q) ==
    FDiv(FOneMinus(damping), N) + FMul(damping, InboundSum(corpus, snap, q, N))

C8_SynchronousUpdate ==
    (fn = "iterate" /\ pc = "iter_for" /\ ValidCall) =>
        \A q \in 1..(p - 1) : pr_res[q] = C8_JacobiRank(q)

\* C9: iterate_rank never returns after a pass in which some page's rank
\* changed by more than the tolerance.
C9_AllPagesConverged ==
    (Returned("iterate") /\ ValidCall) =>
        \A q \in DOMAIN pr_res : Abs(pr_res[q] - snap[q]) <= CONVERGENCE

\* C10: the shared graph changes only in the first loop of the first
\* iterate_rank call, before any rank update, and only at entries whose
\* outbound set was empty, each becoming the set of all pages; no other call
\* and no later iterate_rank call changes it.
C10_Change ==
    corpus' # corpus =>
        /\ fn = "iterate" /\ pc = "iter_init" /\ passes = 0
        /\ ~preprocessed
        /\ DOMAIN corpus' = DOMAIN corpus
        /\ \A q \in DOMAIN corpus :
             corpus'[q] # corpus[q] => corpus[q] = {} /\ corpus'[q] = Keys(corpus)

C10_GraphRewrittenOnce == [][C10_Change]_vars

C10_Witness ==
    /\ preprocessed
    /\ fn = "iterate" /\ pc = "iter_init" /\ p > N
    /\ corpus # corpus0
====
